---- MODULE Spec2Model ----
(***************************************************************************)
(* Vector-index ingestion and retrieval of the legal case retrieval        *)
(* system: EmbeddingService (FAISS index + position->case_id mapping and   *)
(* its two persisted files), the MongoDB cases collection, the bulk        *)
(* ingestion script (FAISSInitializer), the /batch ingestion route and     *)
(* RetrievalService.search_similar_cases.                                  *)
(*                                                                         *)
(* Strings are tuples of one-character strings.  A vector is abstracted to *)
(* its number of elements (len) and one coordinate (x); the L2 distance    *)
(* FAISS computes is (x - y)^2.  A similarity score 1 / (1 + d) is kept as *)
(* the exact fraction <<1, 1 + d>>.                                        *)
(***************************************************************************)
EXTENDS Integers, Sequences, FiniteSets, TLC

VARIABLES
    sources,    \* the PDF files present in the data directory
    store,      \* the MongoDB cases collection, in insertion order
    svc,        \* the in-memory EmbeddingService of each process
    disk,       \* the persisted index file and mapping file
    orch,       \* the ingestion script: position and locals of the run
    route,      \* the /batch route handler: position and locals
    last,       \* outcome of the last EmbeddingService / retrieval call
    hist,       \* history of the run: what was committed, saved, lost
    loop        \* the API process's event loop: its thread and its coroutines

vars == <<sources, store, svc, disk, orch, route, last, hist, loop>>

----------------------------------------------------------------------------
(* Bounds *)

MaxVectors == 4
MaxFiles == 2
MaxBatchSize == 2
MaxRuns == 2
MaxCrashes == 1
MaxLimit == 2
MaxServiceVectors == 3
MaxStoreDocs == 5
MaxFilterLimit == 10
MaxSkip == 2

(* Program constants *)

FAISS_DIMENSION == 768

----------------------------------------------------------------------------
(* Strings *)

None == "None"

CharCode(c) ==
    CASE c = " " -> 32 [] c = "-" -> 45 [] c = "." -> 46 [] c = "/" -> 47
      [] c = "1" -> 49 [] c = "D" -> 68 [] c = "F" -> 70 [] c = "P" -> 80
      [] c = "X" -> 88 [] c = "_" -> 95 [] c = "a" -> 97 [] c = "b" -> 98
      [] c = "c" -> 99 [] c = "d" -> 100 [] c = "e" -> 101 [] c = "f" -> 102
      [] c = "g" -> 103 [] c = "i" -> 105 [] c = "l" -> 108 [] c = "p" -> 112
      [] c = "s" -> 115 [] c = "x" -> 120
      [] OTHER -> 0

LowerChar(c) ==
    CASE c = "D" -> "d" [] c = "F" -> "f" [] c = "P" -> "p" [] c = "X" -> "x"
      [] OTHER -> c

Lower(s) == [i \in 1..Len(s) |-> LowerChar(s[i])]

Replace(s, old, new) == [i \in 1..Len(s) |-> IF s[i] = old THEN new ELSE s[i]]

EndsWith(s, suffix) ==
    /\ Len(s) >= Len(suffix)
    /\ SubSeq(s, Len(s) - Len(suffix) + 1, Len(s)) = suffix

\* index of the last occurrence of c in s, 0 when there is none
LastIndexOf(s, c) ==
    LET hits == {i \in 1..Len(s) : s[i] = c}
    IN  IF hits = {} THEN 0 ELSE CHOOSE i \in hits : \A j \in hits : j <= i

Basename(path) == SubSeq(path, LastIndexOf(path, "/") + 1, Len(path))

\* os.path.splitext(name)[0]: dots that lead the name do not start an extension
SplitextRoot(name) ==
    LET k == LastIndexOf(name, ".")
    IN  IF k = 0 \/ (\A j \in 1..k : name[j] = ".")
        THEN name
        ELSE SubSeq(name, 1, k - 1)

\* s < t in the order Python's sorted() gives strings (by code point)
StrLess(s, t) ==
    \E k \in 0..Len(s) :
        /\ k <= Len(t)
        /\ \A j \in 1..k : s[j] = t[j]
        /\ \/ (k = Len(s) /\ k < Len(t))
           \/ (k < Len(s) /\ k < Len(t) /\ CharCode(s[k + 1]) < CharCode(t[k + 1]))

\* the elements of a finite set of strings as an ascending list
RECURSIVE SortedStrings(_)
SortedStrings(S) ==
    IF S = {} THEN <<>>
    ELSE LET m == CHOOSE x \in S : \A y \in S \ {x} : StrLess(x, y)
         IN  <<m>> \o SortedStrings(S \ {m})

----------------------------------------------------------------------------
(* Source files and what extraction yields for them *)

PDF_EXT == <<".", "p", "d", "f">>
CASE_PREFIX == <<"c", "a", "s", "e", "_">>
FAILED_PREFIX == <<"f", "a", "i", "l", "e", "d", "_">>

\* a plain document: no case number in its text
FileBC == [path |-> <<"b", " ", "c", ".", "p", "d", "f">>, case_number |-> <<>>,
           extract_ok |-> TRUE, text |-> "t1", court |-> "X"]
\* a document in a sub-directory with an upper-case extension
FileDE == [path |-> <<"d", "/", "e", ".", "P", "D", "F">>, case_number |-> <<>>,
           extract_ok |-> TRUE, text |-> "t2", court |-> "Y"]
\* a document whose text carries "Case No. X-1"
FileX1 == [path |-> <<"x", "-", "1", ".", "p", "d", "f">>, case_number |-> <<"X", "-", "1">>,
           extract_ok |-> TRUE, text |-> "t3", court |-> "X"]
\* a document no extraction method gets text from
FileG == [path |-> <<"g", ".", "p", "d", "f">>, case_number |-> <<>>,
          extract_ok |-> FALSE, text |-> "", court |-> None]

FileUniverse == {FileBC, FileDE, FileX1, FileG}

FileAt(path) == CHOOSE f \in FileUniverse : f.path = path

\* FAISSInitializer._find_pdf_files
FindPdfFiles(dir) ==
    SortedStrings({f.path : f \in {g \in dir : EndsWith(Lower(Basename(g.path)), PDF_EXT)}})

\* FAISSInitializer._generate_case_id_from_path, ingestion._generate_case_id_from_path
GenerateCaseIdFromPath(file_path) ==
    LET filename == Basename(file_path)
        base_name == SplitextRoot(filename)
    IN  CASE_PREFIX \o Replace(Replace(base_name, " ", "_"), "-", "_")

\* PDFProcessor._generate_case_id
GenerateCaseId(filename, case_number) ==
    IF case_number # <<>>
    THEN CASE_PREFIX \o Replace(case_number, " ", "_")
    ELSE CASE_PREFIX \o Replace(Replace(SplitextRoot(filename), " ", "_"), "-", "_")

\* PDFProcessor._create_empty_result
CreateEmptyResult(filename) ==
    [case_id |-> FAILED_PREFIX \o Replace(filename, ".", "_"), path |-> filename,
     processing_status |-> "failed", cleaned_content |-> "", court |-> None]

\* PDFProcessor.process_pdf (text extraction and metadata extraction are
\* attributes of the file: extract_ok, text, case_number, court)
ProcessPdf(file_path) ==
    LET f == FileAt(file_path)
        filename == Basename(file_path)
    IN  IF ~f.extract_ok
        THEN CreateEmptyResult(filename)
        ELSE [case_id |-> GenerateCaseId(filename, f.case_number), path |-> file_path,
              processing_status |-> "success", cleaned_content |-> f.text,
              court |-> f.court]

----------------------------------------------------------------------------
(* Embeddings *)

Vec(n, x) == [len |-> n, x |-> x]

\* SentenceTransformer.encode: a deterministic function of the text
Encode(text) ==
    CASE text = "t1" -> 1 [] text = "t2" -> 2 [] text = "t3" -> 3 [] OTHER -> 0

ZeroVector == Vec(FAISS_DIMENSION, 0)

\* EmbeddingService.generate_embedding; fails is the outcome of the encoder
GenerateEmbedding(text, fails) ==
    IF text = "" \/ fails THEN ZeroVector ELSE Vec(FAISS_DIMENSION, Encode(text))

\* EmbeddingService.generate_embeddings_batch
GenerateEmbeddingsBatch(texts, fails) ==
    IF texts = <<>> THEN <<>>
    ELSE IF fails THEN [i \in 1..Len(texts) |-> ZeroVector]
    ELSE [i \in 1..Len(texts) |-> Vec(FAISS_DIMENSION, Encode(texts[i]))]

----------------------------------------------------------------------------
(* EmbeddingService: the FAISS index is the list of its vectors in position
   order (position p is vectors[p + 1]); case_id_mapping is a function from
   positions to case ids *)

NewIndex == [up |-> TRUE, vectors |-> <<>>, mapping |-> <<>>, saving |-> FALSE]

\* the service of a process that is not running
Down == [up |-> FALSE, vectors |-> <<>>, mapping |-> <<>>, saving |-> FALSE]

\* neither file written yet
NoFiles == [index_exists |-> FALSE, index |-> <<>>, mapping_exists |-> FALSE, mapping |-> <<>>]

ntotal(s) == Len(s.vectors)

\* EmbeddingService._load_or_create_index
LoadOrCreateIndex(d) ==
    IF d.index_exists /\ d.mapping_exists
    THEN [up |-> TRUE, vectors |-> d.index, mapping |-> d.mapping, saving |-> FALSE]
    ELSE NewIndex

MapPut(m, pos, id) == [p \in (DOMAIN m) \cup {pos} |-> IF p = pos THEN id ELSE m[p]]

\* EmbeddingService.add_to_index: reshape raises unless the vector has
\* FAISS_DIMENSION elements; otherwise one vector and one mapping entry
AddToIndex(s, case_id, embedding) ==
    IF embedding.len # FAISS_DIMENSION
    THEN [ok |-> FALSE, svc |-> s, positions |-> <<>>]
    ELSE LET index_position == ntotal(s)
         IN  [ok |-> TRUE,
              svc |-> [s EXCEPT !.vectors = Append(@, embedding),
                                !.mapping = MapPut(@, index_position, case_id)],
              positions |-> <<index_position>>]

RECURSIVE MapPutAll(_, _, _, _)
MapPutAll(m, start_position, case_embeddings, i) ==
    IF i > Len(case_embeddings) THEN m
    ELSE MapPutAll(MapPut(m, start_position + (i - 1), case_embeddings[i].case_id),
                   start_position, case_embeddings, i + 1)

\* np.vstack raises unless all rows have the same length
VstackOk(case_embeddings) ==
    \A i, j \in 1..Len(case_embeddings) :
        case_embeddings[i].embedding.len = case_embeddings[j].embedding.len

\* faiss Index.add asserts the matrix width equals the index dimension
FaissAddOk(case_embeddings) ==
    \A i \in 1..Len(case_embeddings) : case_embeddings[i].embedding.len = FAISS_DIMENSION

\* a per-entry loop in place of the single matrix add: the entries before
\* the malformed one stay in the index
RECURSIVE AddBatchToIndexPerEntry(_, _)
AddBatchToIndexPerEntry(s, case_embeddings) ==
    IF case_embeddings = <<>> THEN [ok |-> TRUE, svc |-> s, positions |-> <<>>]
    ELSE LET first == AddToIndex(s, case_embeddings[1].case_id, case_embeddings[1].embedding)
             rest == AddBatchToIndexPerEntry(first.svc, Tail(case_embeddings))
         IN  IF ~first.ok THEN first
             ELSE [ok |-> rest.ok, svc |-> rest.svc,
                   positions |-> IF rest.ok THEN first.positions \o rest.positions ELSE <<>>]

\* EmbeddingService.add_batch_to_index
AddBatchToIndex(s, case_embeddings) ==
    IF case_embeddings = <<>> THEN [ok |-> TRUE, svc |-> s, positions |-> <<>>]
    ELSE IF ~VstackOk(case_embeddings) \/ ~FaissAddOk(case_embeddings)
    THEN [ok |-> FALSE, svc |-> s, positions |-> <<>>]
    ELSE LET start_position == ntotal(s)
         IN  [ok |-> TRUE,
              svc |-> [s EXCEPT
                  !.vectors = @ \o [i \in 1..Len(case_embeddings) |-> case_embeddings[i].embedding],
                  !.mapping = MapPutAll(@, start_position, case_embeddings, 1)],
              positions |-> [i \in 1..Len(case_embeddings) |-> start_position + (i - 1)]]

\* a clear that renews the structure and keeps the mapping
ClearIndexStructureOnly(s) == [s EXCEPT !.vectors = <<>>]

\* EmbeddingService.clear_index
ClearIndex(s) == [s EXCEPT !.vectors = <<>>, !.mapping = <<>>]

\* EmbeddingService.get_index_stats
GetIndexStats(s) ==
    [total_vectors |-> ntotal(s), dimension |-> FAISS_DIMENSION,
     case_count |-> Cardinality(DOMAIN s.mapping)]

\* EmbeddingService.save_index, first write: faiss.write_index
WriteIndexFile(d, s) == [d EXCEPT !.index_exists = TRUE, !.index = s.vectors]

\* a save that leaves the mapping file as it was
WriteMappingFileStale(d, s) == [d EXCEPT !.mapping_exists = TRUE]

\* EmbeddingService.save_index, second write: pickle.dump of the mapping
WriteMappingFile(d, s) == [d EXCEPT !.mapping_exists = TRUE, !.mapping = s.mapping]

----------------------------------------------------------------------------
(* Similarity search *)

Min(a, b) == IF a <= b THEN a ELSE b

\* the L2 distance FAISS reports
Distance(q, v) == (q.x - v.x) * (q.x - v.x)

\* similarities = 1 / (1 + distances), as an exact fraction
Similarity(d) == <<1, 1 + d>>

ScoreLeq(a, b) == a[1] * b[2] <= b[1] * a[2]


\* the ways to list the k nearest of the positions P by ascending distance;
\* vectors at equal distance come in either order
RECURSIVE Nearest(_, _, _, _)
Nearest(s, q, P, k) ==
    IF k = 0 \/ P = {} THEN {<<>>}
    ELSE LET D(p) == Distance(q, s.vectors[p + 1])
             closest == {p \in P : \A r \in P : D(p) <= D(r)}
         IN  UNION {{<<p>> \o rest : rest \in Nearest(s, q, P \ {p}, k - 1)} : p \in closest}

\* faiss_index.search(query, k): the labels of the k nearest vectors
FaissSearch(s, q, k) == Nearest(s, q, 0..(ntotal(s) - 1), k)

\* the loop of search_similar over (indices, similarities): labels that the
\* mapping does not know are skipped
RECURSIVE MappedHits(_, _, _, _)
MappedHits(s, q, idx, i) ==
    IF i > Len(idx) THEN <<>>
    ELSE LET rest == MappedHits(s, q, idx, i + 1)
         IN  IF idx[i] \in DOMAIN s.mapping
             THEN <<[case_id |-> s.mapping[idx[i]],
                     score |-> Similarity(Distance(q, s.vectors[idx[i] + 1]))]>> \o rest
             ELSE rest

\* EmbeddingService.search_similar: the results it can return
SearchSimilar(s, query_embedding, k) ==
    IF ntotal(s) = 0 THEN {<<>>}
    ELSE IF query_embedding.len # FAISS_DIMENSION THEN {<<>>}
    ELSE {MappedHits(s, query_embedding, idx, 1) :
              idx \in FaissSearch(s, query_embedding, Min(k, ntotal(s)))}

----------------------------------------------------------------------------
(* MongoDB cases collection: documents in insertion order, case_id unique
   (DatabaseManager.create_indexes) *)

HasCase(st, case_id) == \E i \in 1..Len(st) : st[i].case_id = case_id

StoreIds(st) == {st[i].case_id : i \in 1..Len(st)}

\* collection.insert_many (ordered): documents are inserted in order up to
\* the first duplicate key, which raises
RECURSIVE InsertMany(_, _)
InsertMany(st, docs) ==
    IF docs = <<>> THEN [ok |-> TRUE, store |-> st]
    ELSE IF HasCase(st, Head(docs).case_id) THEN [ok |-> FALSE, store |-> st]
    ELSE InsertMany(Append(st, Head(docs)), Tail(docs))

\* collection.replace_one(..., upsert=True)
ReplaceOneUpsert(st, doc) ==
    IF HasCase(st, doc.case_id)
    THEN [i \in 1..Len(st) |-> IF st[i].case_id = doc.case_id THEN doc ELSE st[i]]
    ELSE Append(st, doc)

\* FAISSInitializer._case_exists, ingestion._case_exists
CaseExists(st, case_id) == Cardinality({i \in 1..Len(st) : st[i].case_id = case_id}) > 0

\* the document written for a processed result
MongoDoc(result) ==
    [case_id |-> result.case_id, cleaned_content |-> result.cleaned_content,
     court |-> result.court]

\* FAISSInitializer._filter_existing_files
FilterExistingFiles(pdf_files, st) ==
    LET NotStored(file_path) == ~CaseExists(st, GenerateCaseIdFromPath(file_path))
    IN  SelectSeq(pdf_files, NotStored)

----------------------------------------------------------------------------
(* RetrievalService *)

IdsOf(entries) == {entries[i].case_id : i \in 1..Len(entries)}

NoFilter == "any"

\* a filters dict on the court; NoFilter is filters=None
MatchesFilters(doc, filters) == filters = NoFilter \/ doc.court = filters

\* scores_dict = {case_id: score for case_id, score in similar_cases}:
\* a later pair replaces an earlier one with the same key
ScoresDict(similar_cases) ==
    [id \in IdsOf(similar_cases) |->
        LET last_i == CHOOSE i \in 1..Len(similar_cases) :
                /\ similar_cases[i].case_id = id
                /\ \A j \in 1..Len(similar_cases) : similar_cases[j].case_id = id => j <= i
        IN  similar_cases[last_i].score]

\* RetrievalService._get_cases_from_mongodb
GetCasesFromMongodb(st, case_ids, filters, store_fails) ==
    IF store_fails THEN <<>>
    ELSE LET Matches(doc) ==
                 /\ \E i \in 1..Len(case_ids) : case_ids[i] = doc.case_id
                 /\ MatchesFilters(doc, filters)
             found == SelectSeq(st, Matches)
             cases_data == SubSeq(found, 1, Min(Len(found), Len(case_ids)))
             InData(case_id) == \E i \in 1..Len(cases_data) : cases_data[i].case_id = case_id
             DocOf(case_id) == cases_data[CHOOSE i \in 1..Len(cases_data) :
                                              cases_data[i].case_id = case_id]
             present == SelectSeq(case_ids, InData)
         IN  [i \in 1..Len(present) |-> DocOf(present[i])]

\* list.sort(key=similarity_score, reverse=True): stable, descending
RECURSIVE SortByScoreDesc(_)
SortByScoreDesc(results) ==
    IF results = <<>> THEN <<>>
    ELSE LET sorted == SortByScoreDesc(SubSeq(results, 1, Len(results) - 1))
             x == results[Len(results)]
             \* x goes after every element whose score is not below its own
             n == Cardinality({i \in 1..Len(sorted) : ScoreLeq(x.similarity_score,
                                                                sorted[i].similarity_score)})
         IN  SubSeq(sorted, 1, n) \o <<x>> \o SubSeq(sorted, n + 1, Len(sorted))

\* RetrievalService.search_similar_cases, given what search_similar returned
SearchSimilarCases(st, similar_cases, limit, filters, store_fails) ==
    IF similar_cases = <<>> THEN <<>>
    ELSE LET case_ids == [i \in 1..Len(similar_cases) |-> similar_cases[i].case_id]
             scores_dict == ScoresDict(similar_cases)
             cases_data == GetCasesFromMongodb(st, case_ids, filters, store_fails)
             Scored(case_data) == case_data.case_id \in DOMAIN scores_dict
             kept == SelectSeq(cases_data, Scored)
             results == [i \in 1..Len(kept) |->
                            [case_id |-> kept[i].case_id, court |-> kept[i].court,
                             similarity_score |-> scores_dict[kept[i].case_id]]]
             sorted == SortByScoreDesc(results)
         IN  SubSeq(sorted, 1, Min(limit, Len(sorted)))

----------------------------------------------------------------------------
(* The ingestion script: FAISSInitializer *)

IdleOrch ==
    [pc |-> "idle", skip_existing |-> TRUE, batch_size |-> 1, pdf_files |-> <<>>,
     total_files |-> 0, batch_num |-> 0, processed_count |-> 0, failed_count |-> 0,
     skipped_count |-> 0, successful |-> <<>>, case_embeddings |-> <<>>]

IsSuccess(r) == r.processing_status = "success"

NumBatches(total_files, batch_size) == (total_files + batch_size - 1) \div batch_size

\* the slice pdf_files[start_idx:end_idx] of batch batch_num
BatchFiles(pdf_files, batch_num, batch_size) ==
    LET start_idx == batch_num * batch_size
        end_idx == Min(start_idx + batch_size, Len(pdf_files))
    IN  SubSeq(pdf_files, start_idx + 1, end_idx)

\* a batch whose results are all lost as soon as one of its files fails
ProcessBatchAllOrNothing(batch_files) ==
    IF \E i \in 1..Len(batch_files) : ~IsSuccess(ProcessPdf(batch_files[i]))
    THEN [i \in 1..Len(batch_files) |-> CreateEmptyResult(Basename(batch_files[i]))]
    ELSE [i \in 1..Len(batch_files) |-> ProcessPdf(batch_files[i])]

\* FAISSInitializer._process_batch: one result per file, a failure never raises
ProcessBatch(batch_files) == [i \in 1..Len(batch_files) |-> ProcessPdf(batch_files[i])]

CaseEmbeddings(results, embeddings) ==
    [i \in 1..Len(results) |-> [case_id |-> results[i].case_id, embedding |-> embeddings[i]]]

\* the counters and the loop step that end one batch of _process_files_in_batches
NextBatch(o, n_success, n_results) ==
    [o EXCEPT !.processed_count = @ + n_success,
              !.failed_count = @ + (n_results - n_success),
              !.batch_num = @ + 1,
              !.successful = <<>>,
              !.case_embeddings = <<>>,
              !.pc = IF o.batch_num + 1 >= NumBatches(Len(o.pdf_files), o.batch_size)
                     THEN "save" ELSE "batch"]

\* initialize_and_ingest up to the first batch: the script process starts,
\* EmbeddingService() loads the persisted index, Discovering, Filtering
StartRun(skip_existing, batch_size) ==
    LET loaded == LoadOrCreateIndex(disk)
        service == IF skip_existing THEN loaded ELSE ClearIndex(loaded)
        found == FindPdfFiles(sources)
        pdf_files == IF skip_existing THEN FilterExistingFiles(found, store) ELSE found
        started == [hist EXCEPT !.runs = @ + 1,
                                !.second = hist.prev_completed /\ skip_existing,
                                !.after_orphan = hist.orphaned,
                                !.snap_store = store,
                                !.snap_count = ntotal(loaded),
                                !.run_committed = {},
                                !.written = {}, !.appended = {},
                                !.unsaved_batches = 0,
                                !.event = "running"]
    IN  /\ orch.pc = "idle"
        /\ hist.runs + hist.route_calls < MaxRuns
        /\ UNCHANGED <<loop, sources, store, disk, route, last>>
        /\ IF pdf_files = <<>>
           THEN \* "No PDF files found" / "No new files to process": return
                /\ orch' = IdleOrch
                /\ svc' = [svc EXCEPT !.script = Down]
                /\ hist' = [started EXCEPT !.event = "completed",
                                           !.prev_completed = TRUE,
                                           !.prev_committed = {}]
           ELSE /\ orch' = [IdleOrch EXCEPT !.pc = "batch",
                                            !.skip_existing = skip_existing,
                                            !.batch_size = batch_size,
                                            !.pdf_files = pdf_files,
                                            !.total_files = Len(found)]
                /\ svc' = [svc EXCEPT !.script = service]
                /\ hist' = started

\* the store write with its exception swallowed: the commit goes on to the
\* index append although insert_many failed
BatchStoreWriteSwallowed(embed_fails, store_fails) ==
    LET batch_files == BatchFiles(orch.pdf_files, orch.batch_num, orch.batch_size)
        batch_results == ProcessBatch(batch_files)
        successful_results == SelectSeq(batch_results, IsSuccess)
        contents == [i \in 1..Len(successful_results) |-> successful_results[i].cleaned_content]
        embeddings == GenerateEmbeddingsBatch(contents, embed_fails)
        case_embeddings == CaseEmbeddings(successful_results, embeddings)
        documents_for_mongo == [i \in 1..Len(successful_results) |-> MongoDoc(successful_results[i])]
        insert == IF store_fails THEN [ok |-> FALSE, store |-> store]
                  ELSE InsertMany(store, documents_for_mongo)
    IN  /\ orch.pc = "batch"
        /\ UNCHANGED <<loop, sources, disk, route, last>>
        /\ IF successful_results = <<>>
           THEN /\ orch' = NextBatch(orch, 0, Len(batch_results))
                /\ hist' = [hist EXCEPT !.written = {}, !.appended = {}, !.event = "running"]
                /\ UNCHANGED <<loop, store, svc>>
           ELSE IF insert.ok
           THEN /\ store' = insert.store
                /\ orch' = [orch EXCEPT !.pc = "index",
                                        !.successful = successful_results,
                                        !.case_embeddings = case_embeddings]
                /\ hist' = [hist EXCEPT !.written = IdsOf(case_embeddings),
                                        !.appended = {}, !.event = "running"]
                /\ UNCHANGED svc
           ELSE /\ store' = insert.store
                /\ orch' = [orch EXCEPT !.pc = "index",
                                        !.successful = successful_results,
                                        !.case_embeddings = case_embeddings]
                /\ hist' = [hist EXCEPT !.written = StoreIds(insert.store) \ StoreIds(store),
                                        !.appended = {}, !.event = "running"]
                /\ UNCHANGED svc

\* one batch of _process_files_in_batches up to the store write of
\* _store_batch_results: extraction, batch embedding, insert_many
BatchStoreWrite(embed_fails, store_fails) ==
    LET batch_files == BatchFiles(orch.pdf_files, orch.batch_num, orch.batch_size)
        batch_results == ProcessBatch(batch_files)
        successful_results == SelectSeq(batch_results, IsSuccess)
        contents == [i \in 1..Len(successful_results) |-> successful_results[i].cleaned_content]
        embeddings == GenerateEmbeddingsBatch(contents, embed_fails)
        case_embeddings == CaseEmbeddings(successful_results, embeddings)
        documents_for_mongo == [i \in 1..Len(successful_results) |-> MongoDoc(successful_results[i])]
        insert == IF store_fails THEN [ok |-> FALSE, store |-> store]
                  ELSE InsertMany(store, documents_for_mongo)
    IN  /\ orch.pc = "batch"
        /\ UNCHANGED <<loop, sources, disk, route, last>>
        /\ IF successful_results = <<>>
           THEN /\ orch' = NextBatch(orch, 0, Len(batch_results))
                /\ hist' = [hist EXCEPT !.written = {}, !.appended = {}, !.event = "running"]
                /\ UNCHANGED <<loop, store, svc>>
           ELSE IF insert.ok
           THEN /\ store' = insert.store
                /\ orch' = [orch EXCEPT !.pc = "index",
                                        !.successful = successful_results,
                                        !.case_embeddings = case_embeddings]
                /\ hist' = [hist EXCEPT !.written = IdsOf(case_embeddings),
                                        !.appended = {}, !.event = "running"]
                /\ UNCHANGED svc
           ELSE \* the exception leaves initialize_and_ingest; main() exits
                /\ store' = insert.store
                /\ orch' = IdleOrch
                /\ svc' = [svc EXCEPT !.script = Down]
                /\ hist' = [hist EXCEPT !.event = "failed",
                                        !.prev_completed = FALSE,
                                        !.prev_committed = {},
                                        !.run_committed = {},
                                        !.written = {}, !.appended = {},
                                        !.unsaved_batches = 0,
                                        !.orphaned = @ \/ (insert.store # store)]

\* the index append of _store_batch_results, then the counters of the batch
BatchIndexAppend ==
    LET added == AddBatchToIndex(svc.script, orch.case_embeddings)
    IN  /\ orch.pc = "index"
        /\ UNCHANGED <<loop, sources, store, disk, route, last>>
        /\ IF added.ok
           THEN /\ svc' = [svc EXCEPT !.script = added.svc]
                /\ orch' = NextBatch(orch, Len(orch.successful),
                                      Len(BatchFiles(orch.pdf_files, orch.batch_num,
                                                     orch.batch_size)))
                /\ hist' = [hist EXCEPT
                       !.appended = IdsOf(orch.case_embeddings),
                       !.run_committed = @ \cup {[path |-> orch.successful[i].path,
                                                  case_id |-> orch.successful[i].case_id] :
                                                 i \in 1..Len(orch.successful)},
                       !.committed = @ \cup {[path |-> orch.successful[i].path,
                                              case_id |-> orch.successful[i].case_id] :
                                             i \in 1..Len(orch.successful)},
                       !.unsaved_batches = @ + 1,
                       !.event = "running"]
           ELSE /\ orch' = IdleOrch
                /\ svc' = [svc EXCEPT !.script = Down]
                /\ hist' = [hist EXCEPT !.event = "failed", !.prev_completed = FALSE,
                                        !.prev_committed = {}, !.run_committed = {},
                                        !.written = {}, !.appended = {},
                                        !.unsaved_batches = 0, !.orphaned = TRUE]

\* the final save_index of initialize_and_ingest, first file
SaveIndexFile ==
    /\ orch.pc = "save"
    /\ disk' = WriteIndexFile(disk, svc.script)
    /\ orch' = [orch EXCEPT !.pc = "save_mapping"]
    /\ hist' = [hist EXCEPT !.event = "running"]
    /\ UNCHANGED <<loop, sources, store, svc, route, last>>

\* the final save_index, second file; the run prints its statistics and ends
SaveMappingFile ==
    /\ orch.pc = "save_mapping"
    /\ disk' = WriteMappingFile(disk, svc.script)
    /\ orch' = IdleOrch
    /\ svc' = [svc EXCEPT !.script = Down]
    /\ hist' = [hist EXCEPT !.event = "completed",
                            !.prev_completed = TRUE,
                            !.prev_committed = hist.run_committed,
                            !.run_committed = {},
                            !.written = {}, !.appended = {},
                            !.unsaved_batches = 0]
    /\ UNCHANGED <<loop, sources, store, route, last>>

\* SIGINT (signal_handler calls sys.exit) or a kill of the script process,
\* at any point of the run
ScriptInterrupt ==
    /\ orch.pc # "idle"
    /\ hist.crashes < MaxCrashes
    /\ orch' = IdleOrch
    /\ svc' = [svc EXCEPT !.script = Down]
    /\ hist' = [hist EXCEPT !.event = "interrupted",
                            !.crashes = @ + 1,
                            !.prev_completed = FALSE,
                            !.prev_committed = {},
                            !.run_committed = {},
                            !.written = {}, !.appended = {},
                            !.unsaved_batches = 0,
                            !.orphaned = @ \/ (orch.pc = "index")]
    /\ UNCHANGED <<loop, sources, store, disk, route, last>>

----------------------------------------------------------------------------
(* The /batch ingestion route: batch_process_pdfs, in the API process whose
   module-level EmbeddingService is svc.ingestion *)

IdleRoute == [pc |-> "idle", update_index |-> TRUE, results |-> <<>>, i |-> 1,
              successful |-> <<>>]

AllPaths == {f.path : f \in FileUniverse}

\* the file_paths a request can carry
RequestPaths ==
    {SortedStrings(S) : S \in {T \in SUBSET AllPaths : T # {} /\ Cardinality(T) <= MaxFiles}}

\* the validation loop of batch_process_pdfs
ValidFiles(file_paths, skip_existing, dir, st) ==
    LET Valid(file_path) ==
            /\ \E f \in dir : f.path = file_path
            /\ EndsWith(Lower(file_path), PDF_EXT)
            /\ skip_existing => ~CaseExists(st, GenerateCaseIdFromPath(file_path))
    IN  SelectSeq(file_paths, Valid)

\* batch_process_pdfs up to the end of process_multiple_pdfs
RouteStart(file_paths, skip_existing, update_index) ==
    LET valid_files == ValidFiles(file_paths, skip_existing, sources, store)
    IN  /\ route.pc = "idle"
        /\ svc.ingestion.up
        /\ hist.runs + hist.route_calls < MaxRuns
        /\ hist' = [hist EXCEPT !.route_calls = @ + 1, !.route_written = {},
                                !.route_appended = {}, !.event = "running"]
        /\ route' = IF valid_files = <<>> THEN IdleRoute
                    ELSE [IdleRoute EXCEPT !.pc = "store",
                                           !.update_index = update_index,
                                           !.results = ProcessBatch(valid_files)]
        /\ UNCHANGED <<loop, sources, store, svc, disk, orch, last>>

\* one iteration of the loop over results: embedding, then the store write
RouteStoreResult(embed_fails, store_fails) ==
    LET result == route.results[route.i]
        embedding == GenerateEmbedding(result.cleaned_content, embed_fails)
        stored == IsSuccess(result) /\ ~store_fails
        next_pc == IF route.i + 1 > Len(route.results) THEN "index" ELSE "store"
    IN  /\ route.pc = "store"
        /\ store' = IF stored THEN ReplaceOneUpsert(store, MongoDoc(result)) ELSE store
        /\ route' = [route EXCEPT
               !.i = @ + 1,
               !.pc = next_pc,
               !.successful = IF stored
                              THEN Append(@, [case_id |-> result.case_id, embedding |-> embedding])
                              ELSE @]
        /\ hist' = [hist EXCEPT
               !.route_written = IF stored THEN @ \cup {result.case_id} ELSE @,
               !.event = "running"]
        /\ UNCHANGED <<loop, sources, svc, disk, orch, last>>

\* the batch index append after the loop; an exception is logged and swallowed
RouteIndexAppend ==
    LET added == AddBatchToIndex(svc.ingestion, route.successful)
    IN  /\ route.pc = "index"
        /\ IF route.successful # <<>> /\ route.update_index /\ added.ok
           THEN /\ svc' = [svc EXCEPT !.ingestion = [added.svc EXCEPT !.saving = TRUE]]
                /\ route' = [route EXCEPT !.pc = "save"]
                /\ hist' = [hist EXCEPT !.route_appended = IdsOf(route.successful),
                                        !.event = "running"]
           ELSE /\ route' = IdleRoute
                /\ hist' = [hist EXCEPT !.event = "running", !.route_written = {},
                                        !.route_appended = {}]
                /\ UNCHANGED svc
        /\ UNCHANGED <<loop, sources, store, disk, orch, last>>

\* save_index of the route, first file
RouteSaveIndexFile ==
    /\ route.pc = "save"
    /\ disk' = WriteIndexFile(disk, svc.ingestion)
    /\ route' = [route EXCEPT !.pc = "save_mapping"]
    /\ hist' = [hist EXCEPT !.event = "running"]
    /\ UNCHANGED <<loop, sources, store, svc, orch, last>>

\* save_index of the route, second file; the response is returned
RouteSaveMappingFile ==
    /\ route.pc = "save_mapping"
    /\ disk' = WriteMappingFile(disk, svc.ingestion)
    /\ route' = IdleRoute
    /\ svc' = [svc EXCEPT !.ingestion.saving = FALSE]
    /\ hist' = [hist EXCEPT !.event = "running", !.route_written = {},
                            !.route_appended = {}]
    /\ UNCHANGED <<loop, sources, store, orch, last>>

\* the API process dies and is started again: its services load the files
ApiRestart ==
    /\ hist.crashes < MaxCrashes
    /\ route' = IdleRoute
    /\ svc' = [svc EXCEPT !.ingestion = LoadOrCreateIndex(disk),
                          !.retrieval = LoadOrCreateIndex(disk)]
    /\ hist' = [hist EXCEPT !.crashes = @ + 1, !.event = "running",
                            !.route_written = {}, !.route_appended = {}]
    /\ UNCHANGED <<loop, sources, store, disk, orch, last>>

----------------------------------------------------------------------------
(* Initial values of the bookkeeping variables *)

\* a coroutine that is not running an index operation
IdleTask ==
    [op |-> "none", pc |-> 0, service |-> "none", case_embeddings |-> <<>>, start_position |-> 0,
     query |-> Vec(0, 0), k |-> 0, labels |-> <<>>, results |-> <<>>]

\* two request handlers of the API process and the orchestrator script
Tasks == {"t1", "t2", "script"}

\* no coroutine holds the API process's event-loop thread
IdleLoop == [thread |-> "none", tasks |-> [t \in Tasks |-> IdleTask]]

\* the call made last on the service: its arguments, what it returned and the
\* service it was made on
NoCall ==
    [op |-> "none", ok |-> TRUE, malformed |-> 0, n |-> 0, before |-> Down,
     case_id |-> <<>>, embedding |-> Vec(0, 0), positions |-> <<>>, prev_max |-> -1,
     after_save |-> FALSE, follows_add |-> FALSE, k |-> 0, results |-> <<>>]

InitHist ==
    [runs |-> 0, crashes |-> 0, route_calls |-> 0, event |-> "init",
     written |-> {}, appended |-> {}, route_written |-> {}, route_appended |-> {},
     committed |-> {}, run_committed |-> {}, prev_committed |-> {},
     prev_completed |-> FALSE, second |-> FALSE,
     orphaned |-> FALSE, after_orphan |-> FALSE,
     snap_store |-> <<>>, snap_count |-> 0, unsaved_batches |-> 0,
     max_position |-> -1]

----------------------------------------------------------------------------
(* One EmbeddingService (svc.ingestion) driven call by call, with its process
   killed and restarted at any point *)

CaseIdOf(f) == ProcessPdf(f.path).case_id

\* a vector with one element too few
ShortVector(text) == Vec(FAISS_DIMENSION - 1, Encode(text))

ServiceEntries ==
    {[case_id |-> CaseIdOf(f), embedding |-> v] :
        f \in {FileBC, FileDE},
        v \in {Vec(FAISS_DIMENSION, 1), ShortVector("t1")}}

ServiceBatches ==
    UNION {[1..n -> ServiceEntries] : n \in 1..MaxBatchSize}

\* how many vectors of a batch have the wrong number of elements
Malformed(case_embeddings) ==
    Cardinality({i \in 1..Len(case_embeddings) :
                    case_embeddings[i].embedding.len # FAISS_DIMENSION})

SvcReady == svc.ingestion.up /\ ~svc.ingestion.saving

\* the highest of the positions handed out, or what it was before
MaxPosition(positions, prev_max) ==
    IF positions = <<>> THEN prev_max
    ELSE LET top == CHOOSE p \in {positions[i] : i \in 1..Len(positions)} :
                        \A i \in 1..Len(positions) : positions[i] <= p
         IN  IF top > prev_max THEN top ELSE prev_max

SvcAddToIndex(case_id, embedding) ==
    LET added == AddToIndex(svc.ingestion, case_id, embedding)
    IN  /\ SvcReady
        /\ ntotal(svc.ingestion) < MaxServiceVectors
        /\ svc' = [svc EXCEPT !.ingestion = added.svc]
        /\ last' = [NoCall EXCEPT
               !.op = "add_to_index", !.ok = added.ok,
               !.malformed = IF embedding.len # FAISS_DIMENSION THEN 1 ELSE 0,
               !.n = 1, !.before = svc.ingestion,
               !.case_id = case_id, !.embedding = embedding,
               !.positions = added.positions, !.prev_max = hist.max_position]
        /\ hist' = [hist EXCEPT !.max_position = MaxPosition(added.positions, @)]
        /\ UNCHANGED <<loop, sources, store, disk, orch, route>>

SvcAddBatchToIndex(case_embeddings) ==
    LET added == AddBatchToIndex(svc.ingestion, case_embeddings)
    IN  /\ SvcReady
        /\ ntotal(svc.ingestion) + Len(case_embeddings) <= MaxServiceVectors
        /\ svc' = [svc EXCEPT !.ingestion = added.svc]
        /\ last' = [NoCall EXCEPT
               !.op = "add_batch_to_index", !.ok = added.ok,
               !.malformed = Malformed(case_embeddings),
               !.n = Len(case_embeddings), !.before = svc.ingestion,
               !.positions = added.positions, !.prev_max = hist.max_position]
        /\ hist' = [hist EXCEPT !.max_position = MaxPosition(added.positions, @)]
        /\ UNCHANGED <<loop, sources, store, disk, orch, route>>

SvcClearIndex ==
    /\ SvcReady
    /\ svc' = [svc EXCEPT !.ingestion = ClearIndex(@)]
    /\ last' = [NoCall EXCEPT !.op = "clear_index", !.before = svc.ingestion]
    /\ UNCHANGED <<loop, sources, store, disk, orch, route, hist>>

\* search_similar(query_embedding, k); follows_add tells that the call before
\* it was a successful add_to_index of this very vector, whose id is kept
SvcSearchSimilar(query_embedding, k) ==
    /\ SvcReady
    /\ \E results \in SearchSimilar(svc.ingestion, query_embedding, k) :
           last' = [NoCall EXCEPT
               !.op = "search_similar", !.before = svc.ingestion,
               !.follows_add = (last.op = "add_to_index" /\ last.ok
                                    /\ last.embedding = query_embedding),
               !.case_id = IF last.op = "add_to_index" /\ last.ok THEN last.case_id ELSE <<>>,
               !.embedding = query_embedding, !.k = k, !.results = results]
    /\ UNCHANGED <<loop, sources, store, svc, disk, orch, route, hist>>

\* save_index up to and including faiss.write_index
SvcSaveIndexFile ==
    /\ SvcReady
    /\ disk' = WriteIndexFile(disk, svc.ingestion)
    /\ svc' = [svc EXCEPT !.ingestion.saving = TRUE]
    /\ last' = [NoCall EXCEPT !.op = "write_index"]
    /\ UNCHANGED <<loop, sources, store, orch, route, hist>>

\* the rest of save_index: pickle.dump of the mapping
SvcSaveMappingFile ==
    /\ svc.ingestion.up /\ svc.ingestion.saving
    /\ disk' = WriteMappingFile(disk, svc.ingestion)
    /\ svc' = [svc EXCEPT !.ingestion.saving = FALSE]
    /\ last' = [NoCall EXCEPT !.op = "save_index"]
    /\ UNCHANGED <<loop, sources, store, orch, route, hist>>

\* the process is killed (also between the two writes of save_index) and
\* started again: EmbeddingService() loads what is on disk. after_save tells
\* that save_index had just returned
SvcRestart ==
    LET loaded == LoadOrCreateIndex(disk)
    IN  /\ svc' = [svc EXCEPT !.ingestion = loaded]
        /\ last' = [NoCall EXCEPT !.op = "load", !.ok = loaded.up,
                                  !.before = svc.ingestion,
                                  !.after_save = (last.op = "save_index")]
        /\ hist' = [hist EXCEPT !.max_position = ntotal(loaded) - 1]
        /\ UNCHANGED <<loop, sources, store, disk, orch, route>>

\* the vectors a query can be
QueryVectors == {Vec(FAISS_DIMENSION, 1), Vec(FAISS_DIMENSION, 2)}

NextService ==
    \/ \E e \in ServiceEntries : SvcAddToIndex(e.case_id, e.embedding)
    \/ \E case_embeddings \in ServiceBatches : SvcAddBatchToIndex(case_embeddings)
    \/ SvcClearIndex
    \/ \E q \in QueryVectors, k \in 1..MaxLimit : SvcSearchSimilar(q, k)
    \/ SvcSaveIndexFile
    \/ SvcSaveMappingFile
    \/ SvcRestart

----------------------------------------------------------------------------
(* RetrievalService.search_similar_cases over an index and a store that
   ingestion left behind *)

\* what ingestion can have put into the index: each document under its own
\* text, and FileBC once more after its content changed
RetrievalEntries ==
    {[case_id |-> CaseIdOf(f), embedding |-> GenerateEmbedding(f.text, FALSE)] :
        f \in {FileBC, FileDE, FileX1}}
    \cup {[case_id |-> CaseIdOf(FileBC), embedding |-> GenerateEmbedding("t3", FALSE)]}

RECURSIVE IndexOf(_, _)
IndexOf(s, entries) ==
    IF entries = <<>> THEN s
    ELSE IndexOf(AddToIndex(s, Head(entries).case_id, Head(entries).embedding).svc,
                 Tail(entries))

RetrievalIndexes ==
    {IndexOf(NewIndex, entries) :
        entries \in UNION {[1..n -> RetrievalEntries] : n \in 0..MaxVectors}}

RECURSIVE StoreOf(_, _)
StoreOf(st, paths) ==
    IF paths = <<>> THEN st
    ELSE StoreOf(ReplaceOneUpsert(st, MongoDoc(ProcessPdf(Head(paths)))), Tail(paths))

RetrievalStores ==
    {StoreOf(<<>>, SortedStrings(S)) : S \in SUBSET {FileBC.path, FileDE.path, FileX1.path}}

QueryTexts == {"", "t1", "t2", "t3"}

Filters == {NoFilter, "X", "Y"}

NoSearch == [op |-> "none", limit |-> 0, filters |-> NoFilter, store_fails |-> FALSE,
             hits |-> <<>>, results |-> <<>>]

InitRetrieval ==
    /\ sources = {}
    /\ store \in RetrievalStores
    /\ disk = NoFiles
    /\ svc \in {[script |-> Down, ingestion |-> Down, retrieval |-> s] : s \in RetrievalIndexes}
    /\ orch = IdleOrch
    /\ route = IdleRoute
    /\ last = NoSearch
    /\ hist = InitHist
    /\ loop = IdleLoop

\* one search_similar_cases request; last holds its response until it is sent
Search(query_text, limit, filters, encoder_fails, store_fails) ==
    LET query_embedding == GenerateEmbedding(query_text, encoder_fails)
    IN  /\ svc.retrieval.up
        /\ last.op = "none"
        /\ \E similar_cases \in SearchSimilar(svc.retrieval, query_embedding, limit * 2) :
               last' = [op |-> "search_similar_cases", limit |-> limit, filters |-> filters,
                        store_fails |-> store_fails, hits |-> similar_cases,
                        results |-> SearchSimilarCases(store, similar_cases, limit,
                                                       filters, store_fails)]
        /\ UNCHANGED <<loop, sources, store, svc, disk, orch, route, hist>>

\* the response leaves the handler
Respond ==
    /\ last.op = "search_similar_cases"
    /\ last' = NoSearch
    /\ UNCHANGED <<loop, sources, store, svc, disk, orch, route, hist>>

NextRetrieval ==
    \/ \E query_text \in QueryTexts, limit \in 1..MaxLimit, filters \in Filters,
          encoder_fails \in BOOLEAN, store_fails \in BOOLEAN :
           Search(query_text, limit, filters, encoder_fails, store_fails)
    \/ Respond

----------------------------------------------------------------------------
(* Specifications *)

Init ==
    /\ sources \in {S \in SUBSET FileUniverse : Cardinality(S) <= MaxFiles}
    /\ store = <<>>
    /\ disk = NoFiles
    /\ svc = [script |-> Down, ingestion |-> NewIndex, retrieval |-> NewIndex]
    /\ orch = IdleOrch
    /\ route = IdleRoute
    /\ last = NoCall
    /\ hist = InitHist
    /\ loop = IdleLoop

NextOrch ==
    \/ \E skip_existing \in BOOLEAN, batch_size \in 1..MaxBatchSize :
           StartRun(skip_existing, batch_size)
    \/ \E embed_fails \in BOOLEAN, store_fails \in BOOLEAN :
           BatchStoreWrite(embed_fails, store_fails)
    \/ BatchIndexAppend
    \/ SaveIndexFile
    \/ SaveMappingFile
    \/ ScriptInterrupt

NextRoute ==
    \/ \E file_paths \in RequestPaths, skip_existing \in BOOLEAN, update_index \in BOOLEAN :
           RouteStart(file_paths, skip_existing, update_index)
    \/ \E embed_fails \in BOOLEAN, store_fails \in BOOLEAN :
           RouteStoreResult(embed_fails, store_fails)
    \/ RouteIndexAppend
    \/ RouteSaveIndexFile
    \/ RouteSaveMappingFile
    \/ ApiRestart

\* the ingestion script alone
SpecOrch == Init /\ [][NextOrch]_vars

\* the ingestion script and the API process side by side
Next == NextOrch \/ NextRoute

Spec == Init /\ [][Next]_vars

InitService ==
    /\ sources = {}
    /\ store = <<>>
    /\ disk = NoFiles
    /\ svc = [script |-> Down, ingestion |-> NewIndex, retrieval |-> Down]
    /\ orch = IdleOrch
    /\ route = IdleRoute
    /\ last = NoCall
    /\ hist = InitHist
    /\ loop = IdleLoop

\* one EmbeddingService
SpecService == InitService /\ [][NextService]_vars

\* similarity queries
SpecRetrieval == InitRetrieval /\ [][NextRetrieval]_vars

----------------------------------------------------------------------------
(* The index operations statement by statement, and where they run. The API
   process has one event-loop thread: a coroutine that is given the thread
   keeps it until it awaits something pending or returns, and none of
   add_to_index, add_batch_to_index and search_similar awaits between its
   first and its last statement on the index. The chat chain runs in a worker
   thread of the default executor and calls the search from there. The
   orchestrator script is a process of its own with a single coroutine *)

LoopEntries ==
    {[case_id |-> CaseIdOf(f), embedding |-> Vec(FAISS_DIMENSION, 1)] : f \in {FileBC, FileDE}}

LoopBatches == UNION {[1..n -> LoopEntries] : n \in 1..MaxBatchSize}

\* the index that the retrieval services loaded at import
LoadedIndex ==
    IndexOf(NewIndex, <<[case_id |-> CaseIdOf(FileBC), embedding |-> Vec(FAISS_DIMENSION, 1)],
                        [case_id |-> CaseIdOf(FileDE), embedding |-> Vec(FAISS_DIMENSION, 2)]>>)

Task(t) == loop.tasks[t]

\* the EmbeddingService that the code of task t mutates: the module-level
\* one of the ingestion routes, or the FAISSInitializer's own
MutatedService(t) == IF t = "script" THEN "script" ELSE "ingestion"

\* the EmbeddingService the ingestion routes append to
SearchedServiceShared == "ingestion"

\* the EmbeddingService that searches go to: the RetrievalService's own
SearchedService == "retrieval"

\* the thread task t needs is free: the event loop hands its thread to a
\* ready coroutine only when no coroutine is running; the script's coroutine
\* is alone in its process
Free(t) == t = "script" \/ loop.thread = "none"

Take(t) == IF t = "script" THEN loop.thread ELSE t

\* what a coroutine leaves behind on return
Return(t, task) ==
    [thread |-> IF loop.thread = t THEN "none" ELSE loop.thread,
     tasks |-> [loop.tasks EXCEPT ![t] = task]]

\* add_to_index / add_batch_to_index up to and including faiss_index.add
LoopAddBegin(t, op, case_embeddings) ==
    LET service == MutatedService(t)
    IN  /\ Free(t) /\ Task(t).pc = 0
        /\ t = "script" => op = "add_batch_to_index"
        /\ op = "add_to_index" => Len(case_embeddings) = 1
        /\ ntotal(svc[service]) + Len(case_embeddings) <= MaxBatchSize
        /\ svc' = [svc EXCEPT ![service].vectors =
                       @ \o [i \in 1..Len(case_embeddings) |-> case_embeddings[i].embedding]]
        /\ loop' = [thread |-> Take(t),
                    tasks |-> [loop.tasks EXCEPT ![t] =
                        [IdleTask EXCEPT !.op = op, !.pc = 1, !.service = service,
                                         !.case_embeddings = case_embeddings,
                                         !.start_position = ntotal(svc[service])]]]
        /\ UNCHANGED <<sources, store, disk, orch, route, last, hist>>

\* the next case_id_mapping[position] = case_id; after the last one, return
LoopAddMap(t) ==
    LET task == Task(t)
        i == task.pc
    IN  /\ task.op \in {"add_to_index", "add_batch_to_index"} /\ i >= 1
        /\ svc' = [svc EXCEPT ![task.service].mapping =
                       MapPut(@, task.start_position + (i - 1), task.case_embeddings[i].case_id)]
        /\ loop' = IF i = Len(task.case_embeddings)
                   THEN Return(t, [task EXCEPT !.pc = 0])
                   ELSE [loop EXCEPT !.tasks[t].pc = i + 1]
        /\ UNCHANGED <<sources, store, disk, orch, route, last, hist>>

\* clear_index, called by initialize_and_ingest only: the new IndexHNSWFlat
LoopClearBegin(t) ==
    /\ t = "script"
    /\ Free(t) /\ Task(t).pc = 0
    /\ svc' = [svc EXCEPT !.script.vectors = <<>>]
    /\ loop' = [loop EXCEPT !.tasks[t] =
                   [IdleTask EXCEPT !.op = "clear_index", !.pc = 1, !.service = "script"]]
    /\ UNCHANGED <<sources, store, disk, orch, route, last, hist>>

\* clear_index: case_id_mapping = {}, return
LoopClearMap(t) ==
    /\ Task(t).op = "clear_index" /\ Task(t).pc = 1
    /\ svc' = [svc EXCEPT ![Task(t).service].mapping = <<>>]
    /\ loop' = Return(t, [Task(t) EXCEPT !.pc = 0])
    /\ UNCHANGED <<sources, store, disk, orch, route, last, hist>>

\* search_similar up to and including faiss_index.search: the labels with
\* their similarities
SearchTask(service, query_embedding, k, idx) ==
    [IdleTask EXCEPT
        !.op = "search_similar", !.pc = 1, !.service = service,
        !.query = query_embedding, !.k = k,
        !.labels = [i \in 1..Len(idx) |->
            [label |-> idx[i],
             score |-> Similarity(Distance(query_embedding, svc[service].vectors[idx[i] + 1]))]]]

\* search_similar awaited by a retrieval route, on the event loop; on an
\* empty index it returns [] at once
LoopSearchBegin(t, query_embedding, k) ==
    LET service == SearchedService
    IN  /\ t # "script"
        /\ Free(t) /\ Task(t).pc = 0
        /\ IF ntotal(svc[service]) = 0
           THEN loop' = [loop EXCEPT !.tasks[t] =
                    [IdleTask EXCEPT !.op = "search_similar", !.service = service,
                                     !.query = query_embedding, !.k = k]]
           ELSE \E idx \in FaissSearch(svc[service], query_embedding,
                                       Min(k, ntotal(svc[service]))) :
                    loop' = [thread |-> Take(t),
                             tasks |-> [loop.tasks EXCEPT ![t] =
                                 SearchTask(service, query_embedding, k, idx)]]
        /\ UNCHANGED <<sources, store, svc, disk, orch, route, last, hist>>

\* search_similar run by LegalCaseRetriever._get_relevant_documents inside
\* the conversation chain: a worker thread, whatever the event loop is doing
LoopSearchInExecutor(t, query_embedding, k) ==
    LET service == SearchedService
    IN  /\ t # "script"
        /\ Task(t).pc = 0
        /\ IF ntotal(svc[service]) = 0
           THEN loop' = [loop EXCEPT !.tasks[t] =
                    [IdleTask EXCEPT !.op = "search_similar", !.service = service,
                                     !.query = query_embedding, !.k = k]]
           ELSE \E idx \in FaissSearch(svc[service], query_embedding,
                                       Min(k, ntotal(svc[service]))) :
                    loop' = [loop EXCEPT !.tasks[t] =
                                SearchTask(service, query_embedding, k, idx)]
        /\ UNCHANGED <<sources, store, svc, disk, orch, route, last, hist>>

\* the loop over (indices, similarities): labels the mapping knows
RECURSIVE LookupLabels(_, _, _)
LookupLabels(mapping, labels, i) ==
    IF i > Len(labels) THEN <<>>
    ELSE LET rest == LookupLabels(mapping, labels, i + 1)
         IN  IF labels[i].label \in DOMAIN mapping
             THEN <<[case_id |-> mapping[labels[i].label], score |-> labels[i].score]>> \o rest
             ELSE rest

\* search_similar: the result loop, return
LoopSearchLookup(t) ==
    /\ Task(t).op = "search_similar" /\ Task(t).pc = 1
    /\ loop' = Return(t, [Task(t) EXCEPT
                   !.pc = 0,
                   !.results = LookupLabels(svc[Task(t).service].mapping, Task(t).labels, 1)])
    /\ UNCHANGED <<sources, store, svc, disk, orch, route, last, hist>>

InitLoop ==
    /\ sources = {}
    /\ store = <<>>
    /\ disk = NoFiles
    /\ svc = [script |-> NewIndex, ingestion |-> NewIndex, retrieval |-> LoadedIndex]
    /\ orch = IdleOrch
    /\ route = IdleRoute
    /\ last = NoCall
    /\ hist = InitHist
    /\ loop = IdleLoop

NextLoop ==
    \E t \in Tasks :
        \/ \E e \in LoopEntries : LoopAddBegin(t, "add_to_index", <<e>>)
        \/ \E case_embeddings \in LoopBatches :
               LoopAddBegin(t, "add_batch_to_index", case_embeddings)
        \/ LoopAddMap(t)
        \/ LoopClearBegin(t)
        \/ LoopClearMap(t)
        \/ \E q \in QueryVectors, k \in 1..MaxLimit : LoopSearchBegin(t, q, k)
        \/ \E q \in QueryVectors, k \in 1..MaxLimit : LoopSearchInExecutor(t, q, k)
        \/ LoopSearchLookup(t)

\* the index operations of the API process and of the script
SpecLoop == InitLoop /\ [][NextLoop]_vars

----------------------------------------------------------------------------
(* The /upload ingestion route of the API process: upload_pdf and the
   background task it queues, on the module-level EmbeddingService
   svc.ingestion. route holds the handler's position, last the upload made
   last *)

\* the temporary file when the background task runs: upload_pdf has removed
\* it in its finally clause before the response, and so the queued task, is
\* started
TempFileExists == FALSE

\* upload_pdf with process_immediately, up to and including add_to_index
UploadPdf(f, embed_fails) ==
    LET result == ProcessPdf(f.path)
        embedding == GenerateEmbedding(result.cleaned_content, embed_fails)
        added == AddToIndex(svc.ingestion, result.case_id, embedding)
    IN  /\ route.pc = "idle"
        /\ svc.ingestion.up
        /\ ntotal(svc.ingestion) < MaxServiceVectors
        /\ IF ~IsSuccess(result)
           THEN \* HTTP 422
                /\ last' = [NoCall EXCEPT !.op = "upload_pdf", !.ok = FALSE,
                                          !.case_id = result.case_id,
                                          !.before = svc.ingestion]
                /\ UNCHANGED <<svc, route>>
           ELSE /\ svc' = [svc EXCEPT !.ingestion = added.svc]
                /\ route' = [IdleRoute EXCEPT !.pc = "upload_store", !.results = <<result>>]
                /\ last' = [NoCall EXCEPT !.op = "upload_pdf", !.ok = added.ok,
                                          !.case_id = result.case_id,
                                          !.embedding = embedding,
                                          !.positions = added.positions,
                                          !.before = svc.ingestion]
        /\ UNCHANGED <<loop, sources, store, disk, orch, hist>>

\* upload_pdf: _store_case_in_mongodb; when it raises the handler answers
\* HTTP 500, otherwise it goes on to save_index
UploadStoreWrite(store_fails) ==
    /\ route.pc = "upload_store"
    /\ IF store_fails
       THEN /\ route' = IdleRoute
            /\ last' = [last EXCEPT !.ok = FALSE]
            /\ UNCHANGED <<store, svc>>
       ELSE /\ store' = ReplaceOneUpsert(store, MongoDoc(route.results[1]))
            /\ route' = [route EXCEPT !.pc = "save"]
            /\ svc' = [svc EXCEPT !.ingestion.saving = TRUE]
            /\ UNCHANGED last
    /\ UNCHANGED <<loop, sources, disk, orch, hist>>

\* upload_pdf without process_immediately: the task is queued, the response
\* returned, and _background_process_pdf runs up to and including add_to_index
UploadBackground(f, embed_fails) ==
    LET result == IF TempFileExists THEN ProcessPdf(f.path)
                  ELSE CreateEmptyResult(Basename(f.path))
        embedding == GenerateEmbedding(result.cleaned_content, embed_fails)
        added == AddToIndex(svc.ingestion, result.case_id, embedding)
    IN  /\ route.pc = "idle"
        /\ svc.ingestion.up
        /\ ntotal(svc.ingestion) < MaxServiceVectors
        /\ IF ~IsSuccess(result)
           THEN \* "Background processing failed" is logged
                /\ last' = [NoCall EXCEPT !.op = "background_process_pdf", !.ok = FALSE,
                                          !.case_id = result.case_id,
                                          !.before = svc.ingestion]
                /\ UNCHANGED <<svc, route>>
           ELSE /\ svc' = [svc EXCEPT !.ingestion = added.svc]
                /\ route' = [IdleRoute EXCEPT !.pc = "upload_store", !.results = <<result>>]
                /\ last' = [NoCall EXCEPT !.op = "background_process_pdf", !.ok = added.ok,
                                          !.case_id = result.case_id,
                                          !.embedding = embedding,
                                          !.positions = added.positions,
                                          !.before = svc.ingestion]
        /\ UNCHANGED <<loop, sources, store, disk, orch, hist>>

InitUpload ==
    /\ sources = {}
    /\ store = <<>>
    /\ disk = NoFiles
    /\ svc = [script |-> Down, ingestion |-> NewIndex, retrieval |-> NewIndex]
    /\ orch = IdleOrch
    /\ route = IdleRoute
    /\ last = NoCall
    /\ hist = InitHist
    /\ loop = IdleLoop

NextUpload ==
    \/ \E f \in FileUniverse, embed_fails \in BOOLEAN : UploadPdf(f, embed_fails)
    \/ \E store_fails \in BOOLEAN : UploadStoreWrite(store_fails)
    \/ \E f \in FileUniverse, embed_fails \in BOOLEAN : UploadBackground(f, embed_fails)
    \/ RouteSaveIndexFile
    \/ RouteSaveMappingFile

\* single-document uploads to one API process that keeps running
SpecUpload == InitUpload /\ [][NextUpload]_vars

----------------------------------------------------------------------------
(* Case ids of discovered sources: two source files of one directory tree,
   their ids as process_pdf generates them, and the insert_many of a batch
   that holds both *)

IdPaths ==
    {<<"b", " ", "c", ".", "p", "d", "f">>,
     <<"b", "-", "c", ".", "p", "d", "f">>,
     <<"b", "_", "c", ".", "p", "d", "f">>,
     <<"d", "/", "b", " ", "c", ".", "p", "d", "f">>,
     <<"e", ".", "p", "d", "f">>,
     <<"d", "/", "e", ".", "p", "d", "f">>}

\* source files with text; the text of some carries "Case No. X-1"
IdFiles ==
    {[path |-> p, case_number |-> c, extract_ok |-> TRUE, text |-> "t1", court |-> "X"] :
        p \in IdPaths, c \in {<<>>, <<"X", "-", "1">>}}

\* the result of PDFProcessor.process_pdf for a source file with text
ProcessedFile(f) ==
    [case_id |-> GenerateCaseId(Basename(f.path), f.case_number), path |-> f.path,
     processing_status |-> "success", cleaned_content |-> f.text, court |-> f.court]

\* the discovered files in the order of _find_pdf_files
DiscoveredFiles(dir) ==
    LET paths == SortedStrings({f.path : f \in dir})
    IN  [i \in 1..Len(paths) |-> CHOOSE f \in dir : f.path = paths[i]]

\* two files are found in the data directory
IdDiscover(f, g) ==
    /\ sources = {}
    /\ f.path # g.path
    /\ sources' = {f, g}
    /\ last' = [NoCall EXCEPT !.op = "find_pdf_files", !.n = 2]
    /\ UNCHANGED <<loop, store, svc, disk, orch, route, hist>>

\* one batch with both files: process_pdf for each, insert_many
IdInsertMany ==
    LET files == DiscoveredFiles(sources)
        documents_for_mongo == [i \in 1..Len(files) |-> MongoDoc(ProcessedFile(files[i]))]
        insert == InsertMany(store, documents_for_mongo)
    IN  /\ last.op = "find_pdf_files"
        /\ store' = insert.store
        /\ last' = [NoCall EXCEPT !.op = "insert_many", !.ok = insert.ok, !.n = Len(files)]
        /\ UNCHANGED <<loop, sources, svc, disk, orch, route, hist>>

NextCaseId ==
    \/ \E f \in IdFiles, g \in IdFiles : IdDiscover(f, g)
    \/ IdInsertMany

\* id generation for pairs of source files
SpecCaseId == InitUpload /\ [][NextCaseId]_vars

----------------------------------------------------------------------------
(* RetrievalService.search_with_filters over a store of up to MaxStoreDocs
   records; the court stands for the metadata field a filter names *)

Digits == <<"1", "2", "3", "4", "5", "6", "7", "8", "9">>

\* the record of case n: the first two are of court X, the others of court Y
FilterDoc(n) ==
    [case_id |-> CASE_PREFIX \o <<Digits[n]>>, cleaned_content |-> "t1",
     court |-> IF n <= 2 THEN "X" ELSE "Y"]

\* the stores: records with distinct case ids in any order of insertion
FilterStores ==
    {[i \in 1..Len(order) |-> FilterDoc(order[i])] :
        order \in {o \in UNION {[1..n -> 1..MaxStoreDocs] : n \in 0..MaxStoreDocs} :
                      \A i, j \in 1..Len(o) : i # j => o[i] # o[j]}}

\* the result list of search_with_filters
FilterResults(cases_data) ==
    [i \in 1..Len(cases_data) |->
        [case_id |-> cases_data[i].case_id, court |-> cases_data[i].court,
         similarity_score |-> <<0, 1>>]]

\* a search_with_filters that cuts to limit before it skips
SearchWithFiltersLimitFirst(st, filters, limit, skip, store_fails) ==
    IF store_fails THEN <<>>
    ELSE LET Matches(doc) == MatchesFilters(doc, filters)
             found == SelectSeq(st, Matches)
             cut == SubSeq(found, 1, Min(Len(found), limit))
         IN  FilterResults(SubSeq(cut, skip + 1, Len(cut)))

\* RetrievalService.search_with_filters: find(filters).skip(skip).limit(limit);
\* an exception of the store gives []
SearchWithFilters(st, filters, limit, skip, store_fails) ==
    IF store_fails THEN <<>>
    ELSE LET Matches(doc) == MatchesFilters(doc, filters)
             found == SelectSeq(st, Matches)
             cases_data == SubSeq(found, skip + 1, Min(Len(found), skip + limit))
         IN  FilterResults(cases_data)

NoFilterSearch ==
    [op |-> "none", filters |-> NoFilter, limit |-> 0, skip |-> 0,
     store_fails |-> FALSE, results |-> <<>>]

\* one search_with_filters request; last holds its response until it is sent
FilterSearch(filters, limit, skip, store_fails) ==
    /\ last.op = "none"
    /\ last' = [op |-> "search_with_filters", filters |-> filters, limit |-> limit,
                skip |-> skip, store_fails |-> store_fails,
                results |-> SearchWithFilters(store, filters, limit, skip, store_fails)]
    /\ UNCHANGED <<loop, sources, store, svc, disk, orch, route, hist>>

\* the response leaves the handler
FilterRespond ==
    /\ last.op = "search_with_filters"
    /\ last' = NoFilterSearch
    /\ UNCHANGED <<loop, sources, store, svc, disk, orch, route, hist>>

InitFilter ==
    /\ sources = {}
    /\ store \in FilterStores
    /\ disk = NoFiles
    /\ svc = [script |-> Down, ingestion |-> NewIndex, retrieval |-> NewIndex]
    /\ orch = IdleOrch
    /\ route = IdleRoute
    /\ last = NoFilterSearch
    /\ hist = InitHist
    /\ loop = IdleLoop

NextFilter ==
    \/ \E filters \in Filters, limit \in 1..MaxFilterLimit, skip \in 0..MaxSkip,
          store_fails \in BOOLEAN :
           FilterSearch(filters, limit, skip, store_fails)
    \/ FilterRespond

\* filter searches on a store, with an empty vector index
SpecFilter == InitFilter /\ [][NextFilter]_vars

----------------------------------------------------------------------------
(* The status endpoint of the ingestion routes *)

\* get_ingestion_status: 404 for an id the store does not have, otherwise
\* "indexed": True
GetIngestionStatus(st, case_id) ==
    IF HasCase(st, case_id)
    THEN [status |-> "success", case_id |-> case_id, indexed |-> TRUE]
    ELSE [status |-> "404", case_id |-> case_id, indexed |-> FALSE]

----------------------------------------------------------------------------
(* Claims *)

\* the index a process started now would load
Persisted == LoadOrCreateIndex(disk)

IndexedIds(s) == {s.mapping[p] : p \in DOMAIN s.mapping}

\* C1: in a batch commit of the ingestion script and of the /batch route, an
\* id is appended to the index only after its store write succeeded: the ids
\* the commit has appended are among the ids it has written, and are in the
\* store
C1_StoreBeforeIndex ==
    /\ hist.appended \subseteq hist.written
    /\ hist.appended \subseteq StoreIds(store)
    /\ hist.route_appended \subseteq hist.route_written
    /\ hist.route_appended \subseteq StoreIds(store)

\* both commits have appended their vectors
C1_Witness ==
    /\ hist.appended # {}
    /\ route.pc = "save" /\ hist.route_appended # {}

\* C2: when a run was interrupted, or its commit failed, between the store
\* write and the index append of a batch, a re-run started afterwards that
\* runs to its normal end has by then given every store record at least one
\* position in the saved index
C2_RerunReconciles ==
    (hist.after_orphan /\ hist.event = "completed")
        => StoreIds(store) \subseteq IndexedIds(Persisted)

\* C3: a second run with skip_existing over the same sources, after a first
\* run that completed, drops every source the first run committed, processes
\* nothing, and leaves the store and the index cardinality as they were
C3_SecondRunIsNoOp ==
    hist.second =>
        /\ \A i \in 1..Len(orch.pdf_files) :
               \A c \in hist.prev_committed : c.path # orch.pdf_files[i]
        /\ orch.processed_count = 0
        /\ store = hist.snap_store
        /\ hist.event = "completed" => ntotal(Persisted) = hist.snap_count

\* C4: the id Filtering derives for a source is the case_id its record was
\* stored under, so Filtering finds every committed source in the store
C4_FilterIdIsStoredId ==
    \A c \in hist.committed :
        /\ GenerateCaseIdFromPath(c.path) = c.case_id
        /\ CaseExists(store, GenerateCaseIdFromPath(c.path))

\* C5: the index is saved after each batch commit, so at no point of a run
\* are the vectors of more than one committed batch unsaved
C5_CheckpointEveryBatch == hist.unsaved_batches <= 1

\* C6: the positions the mapping knows are exactly 0 .. cardinality - 1
C6_MappingKeysDense ==
    svc.ingestion.up =>
        DOMAIN svc.ingestion.mapping = 0..(ntotal(svc.ingestion) - 1)

\* C7: add_batch_to_index with a malformed vector among its entries fails and
\* leaves the index and the mapping as they were
C7_BatchAllOrNothing ==
    (last.op = "add_batch_to_index" /\ last.malformed > 0) =>
        /\ ~last.ok
        /\ svc.ingestion.vectors = last.before.vectors
        /\ svc.ingestion.mapping = last.before.mapping

\* one malformed vector after a valid one, on an index that holds vectors
C7_Witness ==
    /\ last.op = "add_batch_to_index"
    /\ last.n = 2 /\ last.malformed = 1
    /\ ntotal(last.before) > 0
    /\ \E case_embeddings \in ServiceBatches :
           /\ Len(case_embeddings) = 2
           /\ case_embeddings[1].embedding.len = FAISS_DIMENSION
           /\ case_embeddings[2].embedding.len # FAISS_DIMENSION
           /\ ~AddBatchToIndex(last.before, case_embeddings).ok

\* C8: search_similar_cases returns each case id at most once
C8_NoDuplicateResults ==
    last.op = "search_similar_cases" =>
        \A i, j \in 1..Len(last.results) :
            i # j => last.results[i].case_id # last.results[j].case_id

\* the best score the index hits give an id
IsBestScore(hits, id, score) ==
    /\ \E i \in 1..Len(hits) : hits[i].case_id = id /\ hits[i].score = score
    /\ \A i \in 1..Len(hits) : hits[i].case_id = id => ScoreLeq(hits[i].score, score)

\* C9: the score reported for an id is the maximum of the scores of its hits
C9_MaxScoreReported ==
    last.op = "search_similar_cases" =>
        \A i \in 1..Len(last.results) :
            IsBestScore(last.hits, last.results[i].case_id, last.results[i].similarity_score)

\* the ids a query may return: index hits that are store records matching
\* the filters
Eligible ==
    {id \in IdsOf(last.hits) :
        \E i \in 1..Len(store) : store[i].case_id = id /\ MatchesFilters(store[i], last.filters)}

BestScore(hits, id) ==
    hits[CHOOSE i \in 1..Len(hits) :
             /\ hits[i].case_id = id
             /\ \A j \in 1..Len(hits) : hits[j].case_id = id => ScoreLeq(hits[j].score, hits[i].score)].score

\* C10: the index is asked for 2 * limit hits; at most limit results come
\* back, in non-increasing score order, each an eligible record, and no
\* eligible record left out scores higher than one returned
C10_TopLimitResults ==
    (last.op = "search_similar_cases" /\ ~last.store_fails) =>
        LET res == last.results
            returned == IdsOf(res)
        IN  /\ Len(last.hits) = Min(2 * last.limit, ntotal(svc.retrieval))
            /\ Len(res) <= last.limit
            /\ \A i, j \in 1..Len(res) :
                   i < j => ScoreLeq(res[j].similarity_score, res[i].similarity_score)
            /\ returned \subseteq Eligible
            /\ \A e \in Eligible \ returned :
                   /\ Len(res) = last.limit
                   /\ \A r \in returned : ScoreLeq(BestScore(last.hits, e), BestScore(last.hits, r))

\* C11: search_similar(q, k) returns at most k pairs in non-increasing score
\* order; an index of n < k vectors gives all n of them, an empty index gives
\* the empty list
C11_SearchSimilarContract ==
    last.op = "search_similar" =>
        LET n == ntotal(last.before)
            res == last.results
        IN  /\ Len(res) <= last.k
            /\ \A i, j \in 1..Len(res) : i < j => ScoreLeq(res[j].score, res[i].score)
            /\ n < last.k => Len(res) = n
            /\ n = 0 => res = <<>>

\* C12: after add_to_index(id, v), search_similar(v, 1) on the same index
\* returns id first, with a score no stored vector exceeds for v
C12_AddThenSearch ==
    (last.op = "search_similar" /\ last.follows_add /\ last.k = 1) =>
        /\ last.results # <<>>
        /\ last.results[1].case_id = last.case_id
        /\ \A p \in 1..ntotal(last.before) :
               ScoreLeq(Similarity(Distance(last.embedding, last.before.vectors[p])),
                        last.results[1].score)

C14_LoadRejectsMismatch ==
    (/\ last.op = "load"
     /\ disk.index_exists /\ disk.mapping_exists
     /\ Len(disk.index) # Cardinality(DOMAIN disk.mapping))
        => (~last.ok /\ ~svc.ingestion.up)

\* C15: after clear_index the statistics report no vector and no case, no
\* position that the index or the mapping knew resolves to an id, and a
\* search finds nothing
C15_ClearEmpties ==
    last.op = "clear_index" =>
        /\ GetIndexStats(svc.ingestion).total_vectors = 0
        /\ GetIndexStats(svc.ingestion).case_count = 0
        /\ \A p \in (DOMAIN last.before.mapping) \cup (0..(ntotal(last.before) - 1)) :
               p \notin DOMAIN svc.ingestion.mapping
        /\ \A q \in QueryVectors, k \in 1..MaxLimit :
               SearchSimilar(svc.ingestion, q, k) = {<<>>}

\* the cleared index held vectors under two ids
C15_Witness ==
    /\ last.op = "clear_index"
    /\ ntotal(last.before) >= 2
    /\ \E p, r \in DOMAIN last.before.mapping : last.before.mapping[p] # last.before.mapping[r]
    /\ ntotal(svc.ingestion) = 0

\* C16: the positions add_to_index and add_batch_to_index hand out on one
\* index increase strictly and lie above every position handed out before,
\* also before a clear_index
C16_PositionsNeverReused ==
    (last.op \in {"add_to_index", "add_batch_to_index"} /\ last.ok) =>
        \A i \in 1..Len(last.positions) :
            /\ last.positions[i] > last.prev_max
            /\ \A j \in 1..Len(last.positions) :
                   i < j => last.positions[i] < last.positions[j]

\* C17: add_to_index of a vector of the wrong size fails and changes neither
\* the index nor the mapping; of a vector of the right size it appends one
\* position, the cardinality before the call, which held no mapping entry,
\* and leaves the other entries as they were
C17_AddToIndexContract ==
    last.op = "add_to_index" =>
        LET before == last.before
            after == svc.ingestion
            position == ntotal(before)
        IN  IF last.malformed > 0
            THEN /\ ~last.ok
                 /\ after.vectors = before.vectors
                 /\ after.mapping = before.mapping
            ELSE /\ last.ok
                 /\ last.positions = <<position>>
                 /\ ntotal(after) = position + 1
                 /\ position \notin DOMAIN before.mapping
                 /\ after.mapping[position] = last.case_id
                 /\ \A p \in DOMAIN before.mapping :
                        p \in DOMAIN after.mapping /\ after.mapping[p] = before.mapping[p]

Mutating(t) ==
    Task(t).pc > 0 /\ Task(t).op \in {"add_to_index", "add_batch_to_index", "clear_index"}

Searching(t) == Task(t).pc > 0 /\ Task(t).op = "search_similar"

DoneFiles ==
    SubSeq(orch.pdf_files, 1, Min(orch.batch_num * orch.batch_size, Len(orch.pdf_files)))

Extracted(done) == {i \in 1..Len(done) : FileAt(done[i]).extract_ok}

BetweenBatches == orch.pc \in {"batch", "save", "save_mapping"}

\* C19: after every batch the script has finished, the sources whose
\* extraction failed are the ones counted as failed, and every other source
\* of those batches is counted as processed and is in the store and in the
\* script's index; the script is then at the next batch or at the final save
C19_SiblingsCommitted ==
    BetweenBatches =>
        LET done == DoneFiles
            ok == Extracted(done)
        IN  /\ orch.failed_count = Len(done) - Cardinality(ok)
            /\ orch.processed_count = Cardinality(ok)
            /\ \A i \in ok :
                   /\ ProcessPdf(done[i]).case_id \in StoreIds(store)
                   /\ ProcessPdf(done[i]).case_id \in IndexedIds(svc.script)

\* a finished batch of two sources, one that failed and one that was committed
C19_Witness ==
    /\ BetweenBatches
    /\ orch.batch_size = 2 /\ orch.batch_num = 1 /\ Len(DoneFiles) = 2
    /\ Cardinality(Extracted(DoneFiles)) = 1
    /\ orch.failed_count = 1 /\ orch.processed_count = 1
    /\ ntotal(svc.script) >= 1

\* a store write of the running /batch call has raised: a result that was
\* processed with success is not among the ones kept for the index
RouteStoreFailed ==
    Cardinality({j \in 1..(route.i - 1) : IsSuccess(route.results[j])}) > Len(route.successful)

\* the script reaches its index append only with the whole batch written
ScriptAppendsAfterWrite ==
    orch.pc = "index" => IdsOf(orch.case_embeddings) \subseteq StoreIds(store)

\* C20: a batch commit one of whose store writes failed appends no vector of
\* the batch: the script is at its index append only when insert_many has
\* written the batch, and a /batch call in which a store write raised has
\* appended nothing
C20_FailedWriteAppendsNothing ==
    /\ ScriptAppendsAfterWrite
    /\ (route.pc # "idle" /\ RouteStoreFailed) => hist.route_appended = {}

\* the vector that generate_embeddings_batch returns for a text when the
\* encoder raised; no text of a processed source encodes to it
EmbeddingFailed(embedding) == embedding = ZeroVector

\* C21: a source whose embedding generation failed is not written to the
\* store by the batch commit and gets no vector in the script's index
C21_EmbeddingFailureMarksFailed ==
    /\ orch.pc = "index" =>
           \A i \in 1..Len(orch.case_embeddings) :
               EmbeddingFailed(orch.case_embeddings[i].embedding)
                   => orch.case_embeddings[i].case_id \notin hist.written
    /\ \A p \in 1..ntotal(svc.script) : ~EmbeddingFailed(svc.script.vectors[p])

\* the run of the script has just stopped on SIGINT or on an exception of a
\* batch
RunStopped == hist.event \in {"interrupted", "failed"}

\* C22: when a run stops on an interruption or on a fatal error of a batch,
\* the index has been saved before the stop: every source the script has
\* committed has a position in the persisted index
C22_SaveOnInterruption ==
    RunStopped => \A c \in hist.committed : c.case_id \in IndexedIds(Persisted)

\* C23: a run is not stopped by an interrupt while a batch is between its
\* store write and its index append
C23_CancelAtBatchBoundary ==
    [][orch.pc = "index" => hist'.event # "interrupted"]_vars

\* the run has saved the index file and is about to write the mapping file
\* and print its statistics: the counters have their final values
CountersFinal == orch.pc = "save_mapping"

\* C24: the counters a run reports at its end add up: skipped is the number
\* of discovered sources that Filtering dropped, and processed + failed +
\* skipped is the number of discovered sources
C24_CountsAddUp ==
    CountersFinal =>
        /\ orch.skipped_count = orch.total_files - Len(orch.pdf_files)
        /\ orch.processed_count + orch.failed_count + orch.skipped_count = orch.total_files

\* an upload has finished, with a response or with an error
UploadFinished ==
    route.pc = "idle" /\ last.op \in {"upload_pdf", "background_process_pdf"}

\* C25: when an upload has finished, the id of every position that it added
\* to the mapping has a record in the store
C25_UploadLeavesNoOrphan ==
    UploadFinished =>
        \A i \in 1..Len(last.positions) :
            svc.ingestion.mapping[last.positions[i]] \in StoreIds(store)

\* C26: two distinct discovered source files never have the same case id,
\* neither as process_pdf generates it nor as Filtering derives it from the
\* path, and the insert_many of a batch that holds both raises no duplicate
\* key
C26_CaseIdsUnique ==
    /\ \A f, g \in sources :
           f # g => /\ ProcessedFile(f).case_id # ProcessedFile(g).case_id
                    /\ GenerateCaseIdFromPath(f.path) # GenerateCaseIdFromPath(g.path)
    /\ last.op = "insert_many" => last.ok

\* the positions of the store records that match the filter of the request
FilterMatches == {i \in 1..Len(store) : MatchesFilters(store[i], last.filters)}

\* the position of the n-th matching record
NthMatch(n) == CHOOSE i \in FilterMatches : Cardinality({k \in FilterMatches : k <= i}) = n

\* C27: search_with_filters on a store that answers returns, whatever the
\* vector index holds (here nothing), the matching records after the first
\* skip of them, at most limit, in the store's order, each with score 0
C27_FilterSearchExact ==
    (last.op = "search_with_filters" /\ ~last.store_fails) =>
        LET n == Cardinality(FilterMatches) - last.skip
            expected == IF n < 0 THEN 0 ELSE Min(n, last.limit)
        IN  /\ Len(last.results) = expected
            /\ \A j \in 1..expected :
                   /\ last.results[j].case_id = store[NthMatch(last.skip + j)].case_id
                   /\ last.results[j].similarity_score = <<0, 1>>

\* five records, two of them of court X; the filter on X with limit 10 and
\* skip 0 has returned those two
C27_Witness ==
    /\ last.op = "search_with_filters" /\ ~last.store_fails
    /\ Len(store) = 5
    /\ last.filters = "X" /\ last.limit = 10 /\ last.skip = 0
    /\ Len(last.results) = 2
    /\ ntotal(svc.retrieval) = 0

\* no request and no run is under way, and no process was killed
Quiescent == route.pc = "idle" /\ orch.pc = "idle" /\ hist.crashes = 0

\* C28: between requests, a case that the status endpoint reports as indexed
\* has a position in the index of the API process that serves the endpoint
C28_IndexedMeansInIndex ==
    (Quiescent /\ svc.ingestion.up) =>
        \A case_id \in StoreIds(store) :
            GetIngestionStatus(store, case_id).indexed
                => case_id \in IndexedIds(svc.ingestion)

\* the upload made last was answered with success: processed, appended to the
\* index of the ingestion routes, stored and saved
UploadSucceeded ==
    /\ route.pc = "idle" /\ last.op = "upload_pdf" /\ last.ok
    /\ last.positions # <<>>

\* the positions of the index s that hold the vector under the id
Holds(s, case_id, embedding) ==
    {p \in DOMAIN s.mapping :
        p < ntotal(s) /\ s.mapping[p] = case_id /\ s.vectors[p + 1] = embedding}

\* C29: after a successful upload the index that RetrievalService searches
\* holds the uploaded vector under its id, as the index of the ingestion
\* routes does
C29_UploadVisibleToRetrieval ==
    UploadSucceeded =>
        /\ Holds(svc.ingestion, last.case_id, last.embedding) # {}
        /\ Holds(svc.retrieval, last.case_id, last.embedding) # {}

\* the ids in the mapping file
SavedIds(d) == {d.mapping[p] : p \in DOMAIN d.mapping}

\* this step completes a save_index of an instance that has not cleared its
\* index: the /batch route's, or the script's in a run with skip_existing
SaveCompletes ==
    \/ route.pc = "save_mapping" /\ route'.pc = "idle"
    \/ orch.pc = "save_mapping" /\ orch.skip_existing /\ orch'.pc = "idle"

\* C30: a save_index that completes, by whichever instance, keeps in the
\* persisted files every id that the save completed before it had put there
C30_PersistedIndexGrows ==
    [][SaveCompletes => SavedIds(disk) \subseteq SavedIds(disk')]_vars

====
